---------------------------- MODULE Spec2Model ----------------------------
(***************************************************************************)
(* Push-notification relay: the broadcast handler (POST of the send route, *)
(* src/unnamed/part_001) over the PushToken and NotificationLog tables     *)
(* (schema in src/app/api/notifications/register-token/route.ts) and the   *)
(* Expo push gateway client.                                               *)
(*                                                                         *)
(* A handler runs atomically between two awaits, so there is one action    *)
(* per await of the handler, with the synchronous code that follows the    *)
(* await folded into it.  The token store, the log store and the gateway   *)
(* are external: each call to one of them either returns or throws.        *)
(***************************************************************************)
EXTENDS Integers, Sequences, FiniteSets, Bags, TLC

(***************************************************************************)
(* Bounds of the model.                                                    *)
(***************************************************************************)
\* Broadcast requests a behaviour may hold (each request starts at a later
\* instant).
MaxRequests == 1
\* Tokens two concurrent broadcasts may share.
MaxSharedTokens == 3
\* Register and unregister requests a behaviour may hold.
MaxApiRequests == 2
\* Rows the table may hold at the start when register and unregister
\* requests are served too.
MaxSeededRows == 2
\* Error reports and error-log reads a behaviour may hold, and the rows the
\* ErrorLog table may hold at the start.
MaxLogRequests == 2
MaxSeededErrors == 2
\* Rows the NotificationLog table may hold at the start when stats are
\* read, and the 24 hours of the stats, in ticks of the clock.
MaxSeededLogs == 2
Day == 1
\* The gateway's batch limit; the Expo client uses 100, the model scales it
\* down so that several batches and a short last batch occur.
BatchSize == 2

(***************************************************************************)
(* Values.                                                                 *)
(***************************************************************************)
\* A token string, by the parts the gateway's format check reads:
\* what precedes the bracket, what is inside it, and what closes it.
Tok(prefix, inner, suffix) == [prefix |-> prefix, inner |-> inner, suffix |-> suffix]

\* The token strings rows may hold: four well-formed addresses (both
\* spellings of the prefix) and one that is not an Expo address.
TokenStrings ==
    << Tok("ExponentPushToken[", "aaa", "]"),
       Tok("apns:", "ddd", ""),
       Tok("ExpoPushToken[", "bbb", "]"),
       Tok("ExponentPushToken[", "ccc", "]"),
       Tok("ExpoPushToken[", "eee", "]") >>

\* A JSON field of a request body: absent, or a string.
Undefined == [kind |-> "undefined", str |-> ""]
Str(s) == [kind |-> "string", str |-> s]
FieldValues == {Undefined, Str(""), Str("Hello")}

\* The empty JSON object, and whether an object has a field.
EmptyObject == [f \in {} |-> 0]
Has(obj, f) == f \in DOMAIN obj

\* A JSON field that carries a push token: absent, or a string (which may
\* be the empty string).
EmptyString == Tok("", "", "")
TokUndefined == [kind |-> "undefined", str |-> EmptyString]
TokStr(t) == [kind |-> "string", str |-> t]

\* const { f } = body
Field(body, f) == IF Has(body, f) THEN body[f] ELSE TokUndefined

VARIABLES
    pushToken,        \* the PushToken table: a sequence of rows, row i has id i
    notificationLog,  \* the NotificationLog table: a bag of rows
    expoCalls,        \* the calls the gateway has received, in order
    bc,               \* per handler invocation slot: the broadcast's locals
    now,              \* the clock: advances when a request arrives
    nreq,             \* broadcast requests received so far
    rg,               \* per register invocation slot: the handler's locals
    un,               \* the unregister invocation: the handler's locals
    napi,             \* register and unregister requests received so far
    errorLog,         \* the ErrorLog table: a sequence of rows, row i has id i
    el,               \* the error-report invocation: the handler's locals
    eg,               \* the error-log read invocation: the handler's locals
    st,               \* the stats invocation: the handler's locals
    nlog              \* error-log and stats requests received so far

vars ==
    <<pushToken, notificationLog, expoCalls, bc, now, nreq, rg, un, napi,
      errorLog, el, eg, st, nlog>>

\* What the broadcast handler never touches.
apiVars == <<rg, un, napi, errorLog, el, eg, st, nlog>>

\* What the register and unregister handlers never touch, besides.
logVars == <<errorLog, el, eg, st, nlog>>

\* The handler slots of this specification.
Slots == DOMAIN bc

(***************************************************************************)
(* Pure functions of the handler.                                          *)
(***************************************************************************)
\* Expo.isExpoPushToken: the string opens with ExponentPushToken[ or
\* ExpoPushToken[ and closes with ].  (The client also accepts a bare
\* UUID, which is not among TokenStrings.)
IsExpoPushToken(t) ==
    /\ t.prefix \in {"ExponentPushToken[", "ExpoPushToken["}
    /\ t.suffix = "]"

\* JavaScript's !v for a string-or-undefined field.
Falsy(v) == v.kind = "undefined" \/ v.str = ""

\* Mutant: only the title is required.
InvalidRequestTitleOnly(title, body) == Falsy(title)

\* if (!title || !body)
InvalidRequest(title, body) == Falsy(title) \/ Falsy(body)

\* Mutant: the empty snapshot is not short-circuited.
NoActiveTokensNever(tokens) == FALSE

\* A short-circuit taken also when no token of the snapshot is well-formed.
NoActiveTokensOrNoneValid(tokens) ==
    SelectSeq(tokens, LAMBDA t : IsExpoPushToken(t.token)) = <<>>

\* if (tokens.length === 0)
NoActiveTokens(tokens) == Len(tokens) = 0

\* Mutant: the format check is left out of the filter.
KeepAll(t) == TRUE

\* t => Expo.isExpoPushToken(t.token)
KeepValid(t) == IsExpoPushToken(t.token)

\* tokens.filter(t => Expo.isExpoPushToken(t.token)).map(t => ({to: t.token, ...}))
BuildMessages(tokens, title, body) ==
    LET kept == SelectSeq(tokens, KeepValid)
    IN  [k \in 1..Len(kept) |->
            [to |-> kept[k].token, title |-> title.str, body |-> body.str]]

\* expo.chunkPushNotifications: fill a chunk message by message, close it
\* when it holds BatchSize messages, and close a last, shorter one.
RECURSIVE ChunkFrom(_, _, _)
ChunkFrom(messages, chunk, chunks) ==
    IF messages = <<>>
    THEN IF Len(chunk) > 0 THEN Append(chunks, chunk) ELSE chunks
    ELSE LET grown == Append(chunk, Head(messages))
         IN  IF Len(grown) >= BatchSize
             THEN ChunkFrom(Tail(messages), <<>>, Append(chunks, grown))
             ELSE ChunkFrom(Tail(messages), grown, chunks)

\* Mutant: the messages go out as one batch, whatever their number.
ChunkPushNotificationsWhole(messages) ==
    IF messages = <<>> THEN <<>> ELSE <<messages>>

ChunkPushNotifications(messages) == ChunkFrom(messages, <<>>, <<>>)

\* The tickets the gateway returns for a batch: one per message, in order.
TicketsFor(chunk) ==
    [k \in 1..Len(chunk) |-> [status |-> "ok", to |-> chunk[k].to]]

\* tickets.push(...ticketChunk)
OnTickets(b, ticketChunk) == [b EXCEPT !.tickets = b.tickets \o ticketChunk]

\* Mutant: the batch's error is swallowed, not collected.
OnSendErrorSwallowed(b, error) == b

\* Mutant: the first failed batch ends the loop.
OnSendErrorBreaks(b, error) ==
    [b EXCEPT !.errors = Append(b.errors, error), !.next = Len(b.chunks)]

\* catch (error) { errors.push(error) }
OnSendError(b, error) == [b EXCEPT !.errors = Append(b.errors, error)]

\* Mutant: a rejected write is thrown to the outer catch (Promise.all).
OnLogRejectedThrows(b, k) ==
    [b EXCEPT !.settled[k] = "rejected", !.pc = "done",
              !.response = [status |-> 500,
                            body |-> [error |-> "Failed to send notification"]]]

\* await Promise.allSettled(logPromises): a rejected write is kept as an
\* outcome and nothing is thrown.
OnLogRejected(b, k) == [b EXCEPT !.settled[k] = "rejected"]

\* The log writes left out for the tokens some broadcast has logged already.
LogTargetsDeduplicated(tokens, messages) ==
    SelectSeq(tokens, LAMBDA t : \A x \in BagToSet(notificationLog) : x.tokenId # t.id)

\* The log writes taken from the rows of the snapshot that are active
\* when the writes are set up.
LogTargetsReread(tokens, messages) ==
    SelectSeq(tokens, LAMBDA t : pushToken[t.id].isActive)

\* tokens.map(tokenRecord => prisma.notificationLog.create(...)): the rows
\* the log writes are issued for.
LogTargets(tokens, messages) == tokens

\* Mutant: the row carries a ticket id.
LogRecordWithTicket(req, tokenRecord, title, body) ==
    [req |-> req, tokenId |-> tokenRecord.id, title |-> title.str,
     body |-> body.str, status |-> "sent", ticketId |-> "ticket", sentAt |-> now]

\* The data of one notificationLog.create call.
LogRecord(req, tokenRecord, title, body) ==
    [req |-> req, tokenId |-> tokenRecord.id, title |-> title.str,
     body |-> body.str, status |-> "sent", ticketId |-> "null", sentAt |-> now]

\* where: { id: { in: tokens.map(t => t.id) } }
UpdateIds(tokens, messages) == {tokens[k].id : k \in 1..Len(tokens)}

\* A bulk update restricted to the rows still active.
UpdateWhereActive(row, ids) == row.id \in ids /\ row.isActive

\* The rows the bulk update matches.
UpdateWhere(row, ids) == row.id \in ids

\* A bulk update that would also clear the active flag.
UpdateDataDeactivating(row, date) ==
    [row EXCEPT !.lastUsedAt = date, !.isActive = FALSE]

\* data: { lastUsedAt: new Date() }
UpdateData(row, date) == [row EXCEPT !.lastUsedAt = date]

(***************************************************************************)
(* Responses.                                                              *)
(***************************************************************************)
NoResponse == [status |-> 0, body |-> EmptyObject]

ValidationResponse ==
    [status |-> 400, body |-> [error |-> "title and body are required"]]

EmptyAudienceResponse ==
    [status |-> 200,
     body |-> [success |-> FALSE, message |-> "No active tokens found", sent |-> 0]]

\* A fault response that would carry a count of the messages sent.
FaultResponsePartial ==
    [status |-> 500, body |-> [error |-> "Failed to send notification", sent |-> 0]]

FaultResponse ==
    [status |-> 500, body |-> [error |-> "Failed to send notification"]]

\* Mutant: success only when no batch failed.
ResultResponseStrict(messages, tickets, errors) ==
    [status |-> IF Len(errors) > 0 THEN 500 ELSE 200,
     body |-> [success |-> Len(errors) = 0,
               message |-> <<"Sent", Len(messages), "notifications">>,
               sent |-> Len(messages), tickets |-> tickets, errors |-> errors]]

\* errors: errors.length > 0 ? errors : undefined  (JSON drops undefined)
ResultResponse(messages, tickets, errors) ==
    LET base == [success |-> TRUE, message |-> <<"Sent", Len(messages), "notifications">>,
                 sent |-> Len(messages), tickets |-> tickets]
    IN  [status |-> 200,
         body |-> IF Len(errors) > 0
                  THEN [f \in DOMAIN base \cup {"errors"} |->
                          IF f = "errors" THEN errors ELSE base[f]]
                  ELSE base]

(***************************************************************************)
(* Initial state.                                                          *)
(***************************************************************************)
\* A row of the PushToken table.
Row(i, active) ==
    [id |-> i, token |-> TokenStrings[i], isActive |-> active, lastUsedAt |-> 0]

\* The table holds any number of rows, each active or not; the token
\* column is unique (PushToken_token_key) and the id is the primary key.
\* The column is free text: the schema does not restrict it to addresses
\* that pass the format check, which is why the handler filters.
SeededTables ==
    UNION {{[i \in 1..n |-> Row(i, flags[i])] : flags \in [1..n -> BOOLEAN]}
              : n \in 0..Len(TokenStrings)}

\* The locals of an invocation that has not started.  json: whether the
\* request body parsed; findMany, updateMany: how the store call ended
\* ("notcalled", "resolved", "threw"); settled: the outcome of each log
\* write ("pending", "fulfilled", "rejected").
Idle ==
    [pc |-> "idle", req |-> 0, json |-> FALSE,
     title |-> Undefined, body |-> Undefined,
     findMany |-> "notcalled", updateMany |-> "notcalled",
     tokens |-> <<>>, messages |-> <<>>, chunks |-> <<>>, next |-> 1,
     tickets |-> <<>>, errors |-> <<>>, targets |-> <<>>, settled |-> <<>>,
     response |-> NoResponse]

\* The locals of a register invocation that has not started.  existing:
\* the id findUnique returned, 0 for null; fault: a store call threw for a
\* reason of the store's own.
RegIdle ==
    [pc |-> "idle", body |-> EmptyObject, token |-> TokUndefined,
     existing |-> 0, fault |-> FALSE, response |-> NoResponse]

\* The locals of an unregister invocation that has not started.
UnIdle ==
    [pc |-> "idle", body |-> EmptyObject, token |-> TokUndefined,
     response |-> NoResponse]

\* The locals of an error-report invocation that has not started.
ElIdle == [pc |-> "idle", body |-> EmptyObject, response |-> NoResponse]

\* The locals of an error-log read invocation that has not started.
\* limitParam: the query's limit as sent; limit, where: the query as parsed; errorLogs, total: what
\* the store returned.
EgIdle ==
    [pc |-> "idle", limitParam |-> Undefined, limit |-> 0, where |-> EmptyObject,
     errorLogs |-> <<>>, total |-> 0, response |-> NoResponse]

\* The locals of a stats invocation that has not started.
StIdle ==
    [pc |-> "idle", next |-> 1, totalActive |-> 0, totalInactive |-> 0,
     recentNotifications |-> 0, totalNotifications |-> 0, response |-> NoResponse]

\* No error report, error-log read or stats request has arrived.
LogsIdle ==
    /\ errorLog = <<>>
    /\ el = ElIdle
    /\ eg = EgIdle
    /\ st = StIdle
    /\ nlog = 0

Init ==
    /\ pushToken \in SeededTables
    /\ notificationLog = EmptyBag
    /\ expoCalls = <<>>
    /\ bc = [p \in {1} |-> Idle]
    /\ now = 1
    /\ nreq = 0
    /\ rg = [q \in 1..MaxApiRequests |-> RegIdle]
    /\ un = UnIdle
    /\ napi = 0
    /\ LogsIdle

(***************************************************************************)
(* The broadcast handler, POST of the send route.                          *)
(***************************************************************************)
\* request.json() throws on a body that is not JSON: the outer catch.
BroadcastBadJson(p) ==
    /\ bc[p].pc = "idle"
    /\ nreq < MaxRequests * Cardinality(Slots)
    /\ nreq' = nreq + 1
    /\ now' = now + 1
    /\ bc' = [bc EXCEPT ![p] = [Idle EXCEPT !.pc = "done", !.req = nreq + 1,
                                            !.response = FaultResponse]]
    /\ UNCHANGED <<pushToken, notificationLog, expoCalls>>
    /\ UNCHANGED apiVars

\* The request body is read and validated.
BroadcastStart(p, title, body) ==
    /\ bc[p].pc = "idle"
    /\ nreq < MaxRequests * Cardinality(Slots)
    /\ nreq' = nreq + 1
    /\ now' = now + 1
    /\ bc' = [bc EXCEPT ![p] =
                IF InvalidRequest(title, body)
                THEN [Idle EXCEPT !.pc = "done", !.req = nreq + 1, !.json = TRUE,
                                  !.title = title, !.body = body,
                                  !.response = ValidationResponse]
                ELSE [Idle EXCEPT !.pc = "findMany", !.req = nreq + 1, !.json = TRUE,
                                  !.title = title, !.body = body]]
    /\ UNCHANGED <<pushToken, notificationLog, expoCalls>>
    /\ UNCHANGED apiVars

\* where: { isActive: true }
IsActiveRow(row) == row.isActive
ActiveRows == SelectSeq(pushToken, IsActiveRow)

\* The locals once the batches are done (or there were none): the log
\* writes are issued, one per target, none settled yet.
AfterLoop(b) ==
    LET targets == LogTargets(b.tokens, b.messages)
    IN  [b EXCEPT !.pc = "logs", !.targets = targets,
                  !.settled = [k \in 1..Len(targets) |-> "pending"]]

\* prisma.pushToken.findMany resolves: snapshot, short-circuit, messages, chunks.
FindMany(p) ==
    /\ bc[p].pc = "findMany"
    /\ LET tokens == ActiveRows
           messages == BuildMessages(tokens, bc[p].title, bc[p].body)
           chunks == ChunkPushNotifications(messages)
           b == [bc[p] EXCEPT !.findMany = "resolved",
                              !.tokens = tokens, !.messages = messages,
                              !.chunks = chunks, !.next = 1]
       IN  IF NoActiveTokens(tokens)
           THEN bc' = [bc EXCEPT ![p] = [bc[p] EXCEPT !.findMany = "resolved",
                                                      !.tokens = tokens,
                                                      !.pc = "done",
                                                      !.response = EmptyAudienceResponse]]
           ELSE bc' = [bc EXCEPT ![p] =
                         IF Len(chunks) = 0 THEN AfterLoop(b)
                         ELSE [b EXCEPT !.pc = "send"]]
    /\ UNCHANGED <<pushToken, notificationLog, expoCalls, now, nreq>>
    /\ UNCHANGED apiVars

\* prisma.pushToken.findMany throws: the outer catch.
FindManyFails(p) ==
    /\ bc[p].pc = "findMany"
    /\ bc' = [bc EXCEPT ![p].findMany = "threw", ![p].pc = "done",
                        ![p].response = FaultResponse]
    /\ UNCHANGED <<pushToken, notificationLog, expoCalls, now, nreq>>
    /\ UNCHANGED apiVars

\* The locals after one pass of the loop body.
LoopStep(b) ==
    IF b.next = Len(b.chunks) THEN AfterLoop([b EXCEPT !.next = b.next + 1])
    ELSE [b EXCEPT !.next = b.next + 1, !.pc = "send"]

\* expo.sendPushNotificationsAsync(chunk) is called: the call is in flight
\* and the handler waits for it.
SendChunkCall(p) ==
    /\ bc[p].pc = "send"
    /\ bc' = [bc EXCEPT ![p].pc = "sending"]
    /\ UNCHANGED <<pushToken, notificationLog, expoCalls, now, nreq>>
    /\ UNCHANGED apiVars

\* expo.sendPushNotificationsAsync(chunk) returns the batch's tickets.
SendChunkOk(p) ==
    /\ bc[p].pc = "sending"
    /\ LET chunk == bc[p].chunks[bc[p].next]
       IN  /\ expoCalls' = Append(expoCalls,
                                  [req |-> bc[p].req, chunk |-> chunk, ok |-> TRUE])
           /\ bc' = [bc EXCEPT ![p] = LoopStep(OnTickets(bc[p], TicketsFor(chunk)))]
    /\ UNCHANGED <<pushToken, notificationLog, now, nreq>>
    /\ UNCHANGED apiVars

\* expo.sendPushNotificationsAsync(chunk) throws: the inner catch.
SendChunkFails(p) ==
    /\ bc[p].pc = "sending"
    /\ LET chunk == bc[p].chunks[bc[p].next]
       IN  /\ expoCalls' = Append(expoCalls,
                                  [req |-> bc[p].req, chunk |-> chunk, ok |-> FALSE])
           /\ bc' = [bc EXCEPT ![p] =
                       LoopStep(OnSendError(bc[p], [name |-> "Error", chunk |-> bc[p].next]))]
    /\ UNCHANGED <<pushToken, notificationLog, now, nreq>>
    /\ UNCHANGED apiVars

\* One notificationLog.create fulfils: the row is in the table.
LogCreateOk(p, k) ==
    /\ bc[p].pc = "logs"
    /\ k \in DOMAIN bc[p].settled
    /\ bc[p].settled[k] = "pending"
    /\ notificationLog' = notificationLog (+)
          SetToBag({LogRecord(bc[p].req, bc[p].targets[k], bc[p].title, bc[p].body)})
    /\ bc' = [bc EXCEPT ![p].settled[k] = "fulfilled"]
    /\ UNCHANGED <<pushToken, expoCalls, now, nreq>>
    /\ UNCHANGED apiVars

\* One notificationLog.create rejects: Promise.allSettled keeps the rejection.
LogCreateFails(p, k) ==
    /\ bc[p].pc = "logs"
    /\ k \in DOMAIN bc[p].settled
    /\ bc[p].settled[k] = "pending"
    /\ bc' = [bc EXCEPT ![p] = OnLogRejected(bc[p], k)]
    /\ UNCHANGED <<pushToken, notificationLog, expoCalls, now, nreq>>
    /\ UNCHANGED apiVars

\* A bulk update that does not wait for the log writes.
AllSettledNotAwaited(p) == TRUE

\* A wait that is over only when every log write was fulfilled.
AllSettledFulfilledOnly(p) ==
    \A k \in DOMAIN bc[p].settled : bc[p].settled[k] = "fulfilled"

\* await Promise.allSettled(logPromises)
AllSettled(p) == \A k \in DOMAIN bc[p].settled : bc[p].settled[k] # "pending"

\* prisma.pushToken.updateMany resolves, and the result is returned.
UpdateMany(p) ==
    /\ bc[p].pc = "logs"
    /\ AllSettled(p)
    /\ LET ids == UpdateIds(bc[p].tokens, bc[p].messages)
       IN  pushToken' = [i \in DOMAIN pushToken |->
                           IF UpdateWhere(pushToken[i], ids)
                           THEN UpdateData(pushToken[i], now)
                           ELSE pushToken[i]]
    /\ bc' = [bc EXCEPT ![p].updateMany = "resolved", ![p].pc = "done",
                        ![p].response =
                            ResultResponse(bc[p].messages, bc[p].tickets, bc[p].errors)]
    /\ UNCHANGED <<notificationLog, expoCalls, now, nreq>>
    /\ UNCHANGED apiVars

\* prisma.pushToken.updateMany throws: the outer catch.
UpdateManyFails(p) ==
    /\ bc[p].pc = "logs"
    /\ AllSettled(p)
    /\ bc' = [bc EXCEPT ![p].updateMany = "threw", ![p].pc = "done",
                        ![p].response = FaultResponse]
    /\ UNCHANGED <<pushToken, notificationLog, expoCalls, now, nreq>>
    /\ UNCHANGED apiVars

\* The invocation has returned; the slot serves the next request.
BroadcastReturn(p) ==
    /\ bc[p].pc = "done"
    /\ bc' = [bc EXCEPT ![p] = Idle]
    /\ UNCHANGED <<pushToken, notificationLog, expoCalls, now, nreq>>
    /\ UNCHANGED apiVars

Next ==
    \/ \E p \in Slots : BroadcastBadJson(p)
    \/ \E p \in Slots : \E title \in FieldValues, body \in FieldValues :
           BroadcastStart(p, title, body)
    \/ \E p \in Slots : FindMany(p)
    \/ \E p \in Slots : FindManyFails(p)
    \/ \E p \in Slots : SendChunkCall(p)
    \/ \E p \in Slots : SendChunkOk(p)
    \/ \E p \in Slots : SendChunkFails(p)
    \/ \E p \in Slots : \E k \in 1..Len(TokenStrings) : LogCreateOk(p, k)
    \/ \E p \in Slots : \E k \in 1..Len(TokenStrings) : LogCreateFails(p, k)
    \/ \E p \in Slots : UpdateMany(p)
    \/ \E p \in Slots : UpdateManyFails(p)
    \/ \E p \in Slots : BroadcastReturn(p)

Spec == Init /\ [][Next]_vars

\* Every call the handler awaits returns or fails in the end: the read of
\* the tokens, each batch call, each log write and the bulk update.
CallsReturn ==
    /\ WF_vars(\E p \in Slots : FindMany(p) \/ FindManyFails(p))
    /\ WF_vars(\E p \in Slots : SendChunkCall(p))
    /\ WF_vars(\E p \in Slots : SendChunkOk(p) \/ SendChunkFails(p))
    /\ WF_vars(\E p \in Slots : \E k \in 1..Len(TokenStrings) :
                  LogCreateOk(p, k) \/ LogCreateFails(p, k))
    /\ WF_vars(\E p \in Slots : UpdateMany(p) \/ UpdateManyFails(p))

FairSpec == Spec /\ CallsReturn

(***************************************************************************)
(* Two invocations of the broadcast handler over one table of well-formed  *)
(* active tokens, interleaved at their awaits.                             *)
(***************************************************************************)
\* The well-formed token strings.
ValidStrings == SelectSeq(TokenStrings, IsExpoPushToken)

\* The tables of n well-formed active tokens.
SharedTables ==
    {[i \in 1..n |->
         [id |-> i, token |-> ValidStrings[i], isActive |-> TRUE, lastUsedAt |-> 0]] :
        n \in 0..MaxSharedTokens}

InitTwo ==
    /\ pushToken \in SharedTables
    /\ notificationLog = EmptyBag
    /\ expoCalls = <<>>
    /\ bc = [p \in {1, 2} |-> Idle]
    /\ now = 1
    /\ nreq = 0
    /\ rg = [q \in 1..MaxApiRequests |-> RegIdle]
    /\ un = UnIdle
    /\ napi = 0
    /\ LogsIdle

NextTwo ==
    \/ \E p \in Slots : BroadcastBadJson(p)
    \/ \E p \in Slots : BroadcastStart(p, Str("Hello"), Str("Hello"))
    \/ \E p \in Slots : BroadcastStart(p, Str("Hello"), Undefined)
    \/ \E p \in Slots : FindMany(p)
    \/ \E p \in Slots : FindManyFails(p)
    \/ \E p \in Slots : SendChunkCall(p)
    \/ \E p \in Slots : SendChunkOk(p)
    \/ \E p \in Slots : SendChunkFails(p)
    \/ \E p \in Slots : \E k \in 1..Len(TokenStrings) : LogCreateOk(p, k)
    \/ \E p \in Slots : \E k \in 1..Len(TokenStrings) : LogCreateFails(p, k)
    \/ \E p \in Slots : UpdateMany(p)
    \/ \E p \in Slots : UpdateManyFails(p)
    \/ \E p \in Slots : BroadcastReturn(p)

SpecTwo == InitTwo /\ [][NextTwo]_vars

(***************************************************************************)
(* The register handler, POST of the register-token route.                 *)
(***************************************************************************)
\* A check that accepts any string.
RegisterTokenValidAny(v) == v.kind = "string"

\* if (!Expo.isExpoPushToken(expoPushToken)): a value that is no string
\* fails the check.
RegisterTokenValid(v) == v.kind = "string" /\ IsExpoPushToken(v.str)

\* prisma.pushToken.findUnique({ where: { token } }): the row's id, 0 for null.
FindUniqueId(table, token) ==
    IF \E i \in DOMAIN table : table[i].token = token
    THEN (CHOOSE i \in DOMAIN table : table[i].token = token)
    ELSE 0

\* An update on re-registration that leaves the active flag as it is.
RegisterUpdateDataKeepsFlag(row, date) == [row EXCEPT !.lastUsedAt = date]

\* data: { platform, deviceInfo, isActive: true, lastUsedAt: new Date() }
\* (platform and deviceInfo are not part of the model's rows).
RegisterUpdateData(row, date) == [row EXCEPT !.isActive = TRUE, !.lastUsedAt = date]

\* prisma.pushToken.update({ where: { token }, data })
RegisterUpdateRows(table, token, date) ==
    [i \in DOMAIN table |->
        IF table[i].token = token THEN RegisterUpdateData(table[i], date) ELSE table[i]]

\* The row prisma.pushToken.create inserts: a fresh id, isActive: true,
\* lastUsedAt by its column default.
NewRow(table, token, date) ==
    [id |-> Len(table) + 1, token |-> token, isActive |-> TRUE, lastUsedAt |-> date]

\* A table without the unique index: no insert is refused.
UniqueViolationNever(table, token) == FALSE

\* CREATE UNIQUE INDEX PushToken_token_key: an insert of a token string
\* that a row already holds is refused.
UniqueViolation(table, token) == \E i \in DOMAIN table : table[i].token = token

RegisterInvalidResponse ==
    [status |-> 400, body |-> [error |-> "Invalid Expo push token format"]]

RegisterFaultResponse ==
    [status |-> 500, body |-> [error |-> "Failed to register token"]]

RegisterUpdatedResponse(id) ==
    [status |-> 200,
     body |-> [success |-> TRUE, message |-> "Token updated successfully", tokenId |-> id]]

RegisterCreatedResponse(id) ==
    [status |-> 200,
     body |-> [success |-> TRUE, message |-> "Token registered successfully",
               tokenId |-> id]]

\* The handler's return.
RegisterRespond(r, resp) == [r EXCEPT !.pc = "done", !.response = resp]

\* rg[q] is the q-th invocation of the handler, in order of arrival.
NextInvocation(q) ==
    /\ rg[q].pc = "idle"
    /\ \A o \in DOMAIN rg : o < q => rg[o].pc # "idle"

\* request.json() throws: the catch.
RegisterBadJson(q) ==
    /\ NextInvocation(q)
    /\ napi < MaxApiRequests
    /\ napi' = napi + 1
    /\ now' = now + 1
    /\ rg' = [rg EXCEPT ![q] = [RegIdle EXCEPT !.pc = "done",
                                            !.response = RegisterFaultResponse]]
    /\ UNCHANGED <<pushToken, notificationLog, expoCalls, bc, nreq, un>>
    /\ UNCHANGED logVars

\* The request body is read, the token taken from its field token, and
\* its format checked.
RegisterStart(q, body) ==
    /\ NextInvocation(q)
    /\ napi < MaxApiRequests
    /\ napi' = napi + 1
    /\ now' = now + 1
    /\ LET expoPushToken == Field(body, "token")
           r == [RegIdle EXCEPT !.body = body, !.token = expoPushToken]
       IN  rg' = [rg EXCEPT ![q] =
                    IF ~RegisterTokenValid(expoPushToken)
                    THEN [r EXCEPT !.pc = "done", !.response = RegisterInvalidResponse]
                    ELSE [r EXCEPT !.pc = "findUnique"]]
    /\ UNCHANGED <<pushToken, notificationLog, expoCalls, bc, nreq, un>>
    /\ UNCHANGED logVars

\* prisma.pushToken.findUnique resolves.
RegisterFindUnique(q) ==
    /\ rg[q].pc = "findUnique"
    /\ LET existingToken == FindUniqueId(pushToken, rg[q].token.str)
       IN  rg' = [rg EXCEPT ![q].existing = existingToken,
                           ![q].pc = IF existingToken # 0 THEN "update" ELSE "create"]
    /\ UNCHANGED <<pushToken, notificationLog, expoCalls, bc, now, nreq, un, napi>>
    /\ UNCHANGED logVars

\* prisma.pushToken.update resolves: the row is active again.
RegisterUpdate(q) ==
    /\ rg[q].pc = "update"
    /\ FindUniqueId(pushToken, rg[q].token.str) # 0
    /\ pushToken' = RegisterUpdateRows(pushToken, rg[q].token.str, now)
    /\ rg' = [rg EXCEPT ![q] =
                 RegisterRespond(rg[q],
                     RegisterUpdatedResponse(FindUniqueId(pushToken, rg[q].token.str)))]
    /\ UNCHANGED <<notificationLog, expoCalls, bc, now, nreq, un, napi>>
    /\ UNCHANGED logVars

\* prisma.pushToken.create resolves, or is refused by the unique index.
RegisterCreate(q) ==
    /\ rg[q].pc = "create"
    /\ IF UniqueViolation(pushToken, rg[q].token.str)
       THEN /\ rg' = [rg EXCEPT ![q] = RegisterRespond(rg[q], RegisterFaultResponse)]
            /\ UNCHANGED pushToken
       ELSE LET newToken == NewRow(pushToken, rg[q].token.str, now)
            IN  /\ pushToken' = Append(pushToken, newToken)
                /\ rg' = [rg EXCEPT ![q] =
                             RegisterRespond(rg[q], RegisterCreatedResponse(newToken.id))]
    /\ UNCHANGED <<notificationLog, expoCalls, bc, now, nreq, un, napi>>
    /\ UNCHANGED logVars

\* findUnique, update or create throws for a reason of the store's own.
RegisterStoreFails(q) ==
    /\ rg[q].pc \in {"findUnique", "update", "create"}
    /\ rg' = [rg EXCEPT ![q] =
                 RegisterRespond([rg[q] EXCEPT !.fault = TRUE], RegisterFaultResponse)]
    /\ UNCHANGED <<pushToken, notificationLog, expoCalls, bc, now, nreq, un, napi>>
    /\ UNCHANGED logVars

(***************************************************************************)
(* The unregister handler, POST of the unregister-token route.             *)
(***************************************************************************)
\* if (!expoPushToken)
UnregisterTokenMissing(v) == v.kind = "undefined" \/ v.str = EmptyString

\* where: { token: expoPushToken }
UnregisterWhere(row, token) == row.token = token

\* An unregistration that flips the active flag.
UnregisterDataToggle(row) == [row EXCEPT !.isActive = ~row.isActive]

\* data: { isActive: false }
UnregisterData(row) == [row EXCEPT !.isActive = FALSE]

\* An unregistration that removes the matching rows.
UnregisterRowsDeleting(table, token) ==
    SelectSeq(table, LAMBDA row : row.token # token)

\* prisma.pushToken.updateMany({ where, data })
UnregisterRows(table, token) ==
    [i \in DOMAIN table |->
        IF UnregisterWhere(table[i], token) THEN UnregisterData(table[i]) ELSE table[i]]

\* updated.count: the rows the where clause matched.
UnregisterCount(table, token) ==
    Cardinality({i \in DOMAIN table : UnregisterWhere(table[i], token)})

UnregisterMissingResponse ==
    [status |-> 400, body |-> [error |-> "expoPushToken is required"]]

UnregisterFaultResponse ==
    [status |-> 500, body |-> [error |-> "Failed to unregister token"]]

UnregisterResponse(count) ==
    [status |-> 200,
     body |-> [success |-> TRUE, message |-> "Token unregistered successfully",
               count |-> count]]

\* request.json() throws: the catch.
UnregisterBadJson ==
    /\ un.pc = "idle"
    /\ napi < MaxApiRequests
    /\ napi' = napi + 1
    /\ now' = now + 1
    /\ un' = [UnIdle EXCEPT !.pc = "done", !.response = UnregisterFaultResponse]
    /\ UNCHANGED <<pushToken, notificationLog, expoCalls, bc, nreq, rg>>
    /\ UNCHANGED logVars

\* The request body is read and its field expoPushToken required.
UnregisterStart(body) ==
    /\ un.pc = "idle"
    /\ napi < MaxApiRequests
    /\ napi' = napi + 1
    /\ now' = now + 1
    /\ LET expoPushToken == Field(body, "expoPushToken")
           u == [UnIdle EXCEPT !.body = body, !.token = expoPushToken]
       IN  un' = IF UnregisterTokenMissing(expoPushToken)
                 THEN [u EXCEPT !.pc = "done", !.response = UnregisterMissingResponse]
                 ELSE [u EXCEPT !.pc = "updateMany"]
    /\ UNCHANGED <<pushToken, notificationLog, expoCalls, bc, nreq, rg>>
    /\ UNCHANGED logVars

\* prisma.pushToken.updateMany resolves: the matching rows are inactive.
UnregisterUpdateMany ==
    /\ un.pc = "updateMany"
    /\ pushToken' = UnregisterRows(pushToken, un.token.str)
    /\ un' = [un EXCEPT !.pc = "done",
                        !.response =
                            UnregisterResponse(UnregisterCount(pushToken, un.token.str))]
    /\ UNCHANGED <<notificationLog, expoCalls, bc, now, nreq, rg, napi>>
    /\ UNCHANGED logVars

\* prisma.pushToken.updateMany throws: the catch.
UnregisterUpdateManyFails ==
    /\ un.pc = "updateMany"
    /\ un' = [un EXCEPT !.pc = "done", !.response = UnregisterFaultResponse]
    /\ UNCHANGED <<pushToken, notificationLog, expoCalls, bc, now, nreq, rg, napi>>
    /\ UNCHANGED logVars

\* The invocation has returned; the next request may be served.
UnregisterReturn ==
    /\ un.pc = "done"
    /\ un' = UnIdle
    /\ UNCHANGED <<pushToken, notificationLog, expoCalls, bc, now, nreq, rg, napi>>
    /\ UNCHANGED logVars

(***************************************************************************)
(* The three routes together: one broadcast invocation, two register       *)
(* invocations and one unregister invocation, interleaved at their awaits. *)
(***************************************************************************)
RegSlots == DOMAIN rg

\* The tables of SeededTables with at most MaxSeededRows rows.
SmallSeededTables == {t \in SeededTables : Len(t) <= MaxSeededRows}

InitApi ==
    /\ pushToken \in SmallSeededTables
    /\ notificationLog = EmptyBag
    /\ expoCalls = <<>>
    /\ bc = [p \in {1} |-> Idle]
    /\ now = 1
    /\ nreq = 0
    /\ rg = [q \in 1..MaxApiRequests |-> RegIdle]
    /\ un = UnIdle
    /\ napi = 0
    /\ LogsIdle

\* The token strings requests carry.
RequestTokens == {TokenStrings[i] : i \in 1..(MaxSeededRows + 1)}

NextApi ==
    \/ \E p \in Slots : BroadcastBadJson(p)
    \/ \E p \in Slots : \E title \in FieldValues, body \in FieldValues :
           BroadcastStart(p, title, body)
    \/ \E p \in Slots : FindMany(p)
    \/ \E p \in Slots : FindManyFails(p)
    \/ \E p \in Slots : SendChunkCall(p)
    \/ \E p \in Slots : SendChunkOk(p)
    \/ \E p \in Slots : SendChunkFails(p)
    \/ \E p \in Slots : \E k \in 1..Len(TokenStrings) : LogCreateOk(p, k)
    \/ \E p \in Slots : \E k \in 1..Len(TokenStrings) : LogCreateFails(p, k)
    \/ \E p \in Slots : UpdateMany(p)
    \/ \E p \in Slots : UpdateManyFails(p)
    \/ \E p \in Slots : BroadcastReturn(p)
    \/ \E q \in RegSlots : RegisterBadJson(q)
    \/ \E q \in RegSlots : \E t \in RequestTokens : RegisterStart(q, [token |-> TokStr(t)])
    \/ \E q \in RegSlots : \E t \in RequestTokens :
           RegisterStart(q, [expoPushToken |-> TokStr(t)])
    \/ \E q \in RegSlots : RegisterFindUnique(q)
    \/ \E q \in RegSlots : RegisterUpdate(q)
    \/ \E q \in RegSlots : RegisterCreate(q)
    \/ \E q \in RegSlots : RegisterStoreFails(q)
    \/ UnregisterBadJson
    \/ \E t \in RequestTokens \cup {EmptyString} :
           UnregisterStart([expoPushToken |-> TokStr(t)])
    \/ UnregisterStart(EmptyObject)
    \/ UnregisterUpdateMany
    \/ UnregisterUpdateManyFails
    \/ UnregisterReturn

SpecApi == InitApi /\ [][NextApi]_vars

(***************************************************************************)
(* The error-report handler, POST of the error-log route.                  *)
(***************************************************************************)
\* A report that is refused only when it names no error type.
ErrorReportInvalidTypeOnly(errorType, message) == Falsy(errorType)

\* if (!errorType || !message)
ErrorReportInvalid(errorType, message) == Falsy(errorType) \/ Falsy(message)

\* platform || null
OrNull(v) == IF Falsy(v) THEN "null" ELSE v.str

\* The row prisma.errorLog.create inserts: a fresh id, createdAt by its
\* column default.
NewErrorRow(table, body, date) ==
    [id |-> Len(table) + 1,
     errorType |-> body.errorType.str,
     message |-> body.message.str,
     platform |-> OrNull(Field(body, "platform")),
     createdAt |-> date]

ErrorReportMissingResponse ==
    [status |-> 400, body |-> [error |-> "errorType and message are required"]]

ErrorReportFaultResponse ==
    [status |-> 500, body |-> [error |-> "Failed to log error"]]

ErrorReportResponse(id) == [status |-> 200, body |-> [success |-> TRUE, id |-> id]]

\* A field of a report, undefined when the report lacks it.
ReportField(body, f) == IF Has(body, f) THEN body[f] ELSE Undefined

\* request.json() throws: the catch.
ErrorLogBadJson ==
    /\ el.pc = "idle"
    /\ nlog < MaxLogRequests
    /\ nlog' = nlog + 1
    /\ now' = now + 1
    /\ el' = [ElIdle EXCEPT !.pc = "done", !.response = ErrorReportFaultResponse]
    /\ UNCHANGED <<pushToken, notificationLog, expoCalls, bc, nreq, rg, un, napi>>
    /\ UNCHANGED <<errorLog, eg, st>>

\* The report is read and its required fields checked.
ErrorLogStart(body) ==
    /\ el.pc = "idle"
    /\ nlog < MaxLogRequests
    /\ nlog' = nlog + 1
    /\ now' = now + 1
    /\ el' = IF ErrorReportInvalid(ReportField(body, "errorType"),
                                   ReportField(body, "message"))
             THEN [ElIdle EXCEPT !.body = body, !.pc = "done",
                                 !.response = ErrorReportMissingResponse]
             ELSE [ElIdle EXCEPT !.body = body, !.pc = "create"]
    /\ UNCHANGED <<pushToken, notificationLog, expoCalls, bc, nreq, rg, un, napi>>
    /\ UNCHANGED <<errorLog, eg, st>>

\* prisma.errorLog.create resolves: the row is in the table.
ErrorLogCreate ==
    /\ el.pc = "create"
    /\ LET row == NewErrorRow(errorLog, el.body, now)
       IN  /\ errorLog' = Append(errorLog, row)
           /\ el' = [el EXCEPT !.pc = "done", !.response = ErrorReportResponse(row.id)]
    /\ UNCHANGED <<pushToken, notificationLog, expoCalls, bc, now, nreq, rg, un, napi>>
    /\ UNCHANGED <<eg, st, nlog>>

\* prisma.errorLog.create throws: the catch.
ErrorLogCreateFails ==
    /\ el.pc = "create"
    /\ el' = [el EXCEPT !.pc = "done", !.response = ErrorReportFaultResponse]
    /\ UNCHANGED <<pushToken, notificationLog, expoCalls, bc, now, nreq, rg, un, napi>>
    /\ UNCHANGED <<errorLog, eg, st, nlog>>

\* The invocation has returned; the next report may be served.
ErrorLogReturn ==
    /\ el.pc = "done"
    /\ el' = ElIdle
    /\ UNCHANGED <<pushToken, notificationLog, expoCalls, bc, now, nreq, rg, un, napi>>
    /\ UNCHANGED <<errorLog, eg, st, nlog>>

(***************************************************************************)
(* The error-log read handler, GET of the error-log route.                 *)
(***************************************************************************)
\* The value of a decimal digit.
DigitValue(c) ==
    CASE c = "0" -> 0 [] c = "1" -> 1 [] c = "2" -> 2 [] c = "3" -> 3 [] c = "4" -> 4
      [] c = "5" -> 5 [] c = "6" -> 6 [] c = "7" -> 7 [] c = "8" -> 8 [] c = "9" -> 9

\* parseInt of a string of decimal digits, given as the sequence of its
\* characters.
RECURSIVE ParseInt(_)
ParseInt(digits) ==
    IF digits = <<>> THEN 0
    ELSE ParseInt(SubSeq(digits, 1, Len(digits) - 1)) * 10
             + DigitValue(digits[Len(digits)])

\* searchParams.get("limit") || "50"
LimitText(v) ==
    IF v.kind = "undefined" THEN <<"5", "0">>
    ELSE IF v.str = <<>> THEN <<"5", "0">> ELSE v.str

\* if (errorType) where.errorType = errorType; if (platform) where.platform = platform
WhereClause(errorType, platform) ==
    [f \in {g \in {"errorType", "platform"} :
               ~Falsy(IF g = "errorType" THEN errorType ELSE platform)} |->
        IF f = "errorType" THEN errorType.str ELSE platform.str]

\* A where clause that filters by error type alone.
WhereMatchesTypeOnly(row, where) ==
    Has(where, "errorType") => row.errorType = where.errorType

\* Whether a row satisfies the where clause.
WhereMatches(row, where) ==
    /\ Has(where, "errorType") => row.errorType = where.errorType
    /\ Has(where, "platform") => row.platform = where.platform

\* orderBy: { createdAt: "desc" }: the rows newest first.
RECURSIVE InsertDesc(_, _)
InsertDesc(row, sorted) ==
    IF sorted = <<>> THEN <<row>>
    ELSE IF row.createdAt >= Head(sorted).createdAt
         THEN <<row>> \o sorted
         ELSE <<Head(sorted)>> \o InsertDesc(row, Tail(sorted))

RECURSIVE SortDesc(_)
SortDesc(rows) ==
    IF rows = <<>> THEN <<>> ELSE InsertDesc(Head(rows), SortDesc(Tail(rows)))

\* take: limit
Take(rows, limit) == SubSeq(rows, 1, IF limit < Len(rows) THEN limit ELSE Len(rows))

\* prisma.errorLog.findMany({ where, orderBy, take })
FindErrors(table, where, limit) ==
    Take(SortDesc(SelectSeq(table, LAMBDA row : WhereMatches(row, where))), limit)

\* prisma.errorLog.count({ where })
CountErrors(table, where) ==
    Cardinality({i \in DOMAIN table : WhereMatches(table[i], where)})

\* prisma.errorLog.groupBy({ by: ["errorType"], _count: true }), mapped to
\* { type, count }; the groups are taken over the whole table, and their
\* order is left out.
GroupErrors(table) ==
    {[type |-> t, count |-> Cardinality({i \in DOMAIN table : table[i].errorType = t})] :
        t \in {table[i].errorType : i \in DOMAIN table}}

ErrorsFaultResponse ==
    [status |-> 500, body |-> [error |-> "Failed to fetch error logs"]]

ErrorsResponse(errorLogs, total, errorTypes) ==
    [status |-> 200,
     body |-> [success |-> TRUE, data |-> errorLogs,
               stats |-> [total |-> total, errorTypes |-> errorTypes]]]

\* The query string is read.
ErrorsGetStart(limit, errorType, platform) ==
    /\ eg.pc = "idle"
    /\ nlog < MaxLogRequests
    /\ nlog' = nlog + 1
    /\ now' = now + 1
    /\ eg' = [EgIdle EXCEPT !.pc = "findMany",
                            !.limitParam = limit,
                            !.limit = ParseInt(LimitText(limit)),
                            !.where = WhereClause(errorType, platform)]
    /\ UNCHANGED <<pushToken, notificationLog, expoCalls, bc, nreq, rg, un, napi>>
    /\ UNCHANGED <<errorLog, el, st>>

\* prisma.errorLog.findMany resolves.
ErrorsFindMany ==
    /\ eg.pc = "findMany"
    /\ eg' = [eg EXCEPT !.pc = "count",
                        !.errorLogs = FindErrors(errorLog, eg.where, eg.limit)]
    /\ UNCHANGED <<pushToken, notificationLog, expoCalls, bc, now, nreq, rg, un, napi>>
    /\ UNCHANGED <<errorLog, el, st, nlog>>

\* prisma.errorLog.count resolves.
ErrorsCount ==
    /\ eg.pc = "count"
    /\ eg' = [eg EXCEPT !.pc = "groupBy", !.total = CountErrors(errorLog, eg.where)]
    /\ UNCHANGED <<pushToken, notificationLog, expoCalls, bc, now, nreq, rg, un, napi>>
    /\ UNCHANGED <<errorLog, el, st, nlog>>

\* prisma.errorLog.groupBy resolves, and the records and stats are returned.
ErrorsGroupBy ==
    /\ eg.pc = "groupBy"
    /\ eg' = [eg EXCEPT !.pc = "done",
                        !.response =
                            ErrorsResponse(eg.errorLogs, eg.total, GroupErrors(errorLog))]
    /\ UNCHANGED <<pushToken, notificationLog, expoCalls, bc, now, nreq, rg, un, napi>>
    /\ UNCHANGED <<errorLog, el, st, nlog>>

\* findMany, count or groupBy throws: the catch.
ErrorsStoreFails ==
    /\ eg.pc \in {"findMany", "count", "groupBy"}
    /\ eg' = [eg EXCEPT !.pc = "done", !.response = ErrorsFaultResponse]
    /\ UNCHANGED <<pushToken, notificationLog, expoCalls, bc, now, nreq, rg, un, napi>>
    /\ UNCHANGED <<errorLog, el, st, nlog>>

\* The invocation has returned; the next read may be served.
ErrorsGetReturn ==
    /\ eg.pc = "done"
    /\ eg' = EgIdle
    /\ UNCHANGED <<pushToken, notificationLog, expoCalls, bc, now, nreq, rg, un, napi>>
    /\ UNCHANGED <<errorLog, el, st, nlog>>

(***************************************************************************)
(* The error-log route: reports and reads interleaved at their awaits.     *)
(***************************************************************************)
\* The error types and platforms of the rows and requests.
ErrorTypes == {"NETWORK_ERROR", "CRASH"}
Platforms == {"ios", "null"}

\* The tables of at most MaxSeededErrors rows, each older than the next.
SeededErrors ==
    UNION {{[i \in 1..n |->
               [id |-> i, errorType |-> types[i], message |-> "boom",
                platform |-> platforms[i], createdAt |-> i - n]] :
              types \in [1..n -> ErrorTypes], platforms \in [1..n -> Platforms]}
              : n \in 0..MaxSeededErrors}

InitLogs ==
    /\ pushToken = <<>>
    /\ notificationLog = EmptyBag
    /\ expoCalls = <<>>
    /\ bc = [p \in {1} |-> Idle]
    /\ now = 1
    /\ nreq = 0
    /\ rg = [q \in 1..MaxApiRequests |-> RegIdle]
    /\ un = UnIdle
    /\ napi = 0
    /\ errorLog \in SeededErrors
    /\ el = ElIdle
    /\ eg = EgIdle
    /\ st = StIdle
    /\ nlog = 0

\* The values of errorType and message in a report, and of limit in a query.
ReportValues == {Undefined, Str(""), Str("CRASH")}
LimitValues ==
    {Undefined, [kind |-> "string", str |-> <<>>], [kind |-> "string", str |-> <<"0">>],
     [kind |-> "string", str |-> <<"1">>], [kind |-> "string", str |-> <<"2">>]}

NextLogs ==
    \/ ErrorLogBadJson
    \/ \E errorType \in ReportValues \ {Undefined}, message \in ReportValues \ {Undefined} :
           ErrorLogStart([errorType |-> errorType, message |-> message])
    \/ \E message \in ReportValues \ {Undefined} : ErrorLogStart([message |-> message])
    \/ \E errorType \in ReportValues \ {Undefined} :
           ErrorLogStart([errorType |-> errorType])
    \/ ErrorLogStart([errorType |-> Str("NETWORK_ERROR"), message |-> Str("boom"),
                      platform |-> Str("ios")])
    \/ ErrorLogCreate
    \/ ErrorLogCreateFails
    \/ ErrorLogReturn
    \/ \E limit \in LimitValues, errorType \in ReportValues, platform \in {Undefined, Str("ios")} :
           ErrorsGetStart(limit, errorType, platform)
    \/ ErrorsFindMany
    \/ ErrorsCount
    \/ ErrorsGroupBy
    \/ ErrorsStoreFails
    \/ ErrorsGetReturn

SpecLogs == InitLogs /\ [][NextLogs]_vars

(***************************************************************************)
(* The stats handler, GET of the stats route, beside a broadcast.          *)
(***************************************************************************)
\* The reads of the handler with the total of all time read before the
\* count of the last day.
StatsReadsTotalFirst == <<"active", "inactive", "platform", "total", "recent">>

\* The reads the handler awaits, in order: the active tokens, the inactive
\* tokens, the active tokens by platform, the notifications of the last
\* 24 hours, the notifications of all time.
StatsReads == <<"active", "inactive", "platform", "recent", "total">>

\* prisma.pushToken.count({ where: { isActive } })
CountTokens(table, active) ==
    Cardinality({i \in DOMAIN table : table[i].isActive = active})

\* prisma.notificationLog.count({ where: { sentAt: { gte } } })
CountSentSince(log, gte) ==
    LET rows == {x \in BagToSet(log) : x.sentAt >= gte}
    IN  IF rows = {} THEN 0 ELSE BagCardinality([x \in rows |-> log[x]])

\* prisma.notificationLog.count()
CountSent(log) == IF BagToSet(log) = {} THEN 0 ELSE BagCardinality(log)

\* The locals after the read named: the count it returned is kept.  The
\* break-down by platform reads a column the rows of the model do not
\* have, and keeps nothing.
AfterRead(s, read) ==
    CASE read = "active" -> [s EXCEPT !.totalActive = CountTokens(pushToken, TRUE)]
      [] read = "inactive" -> [s EXCEPT !.totalInactive = CountTokens(pushToken, FALSE)]
      [] read = "platform" -> s
      [] read = "recent" ->
            [s EXCEPT !.recentNotifications = CountSentSince(notificationLog, now - Day)]
      [] read = "total" -> [s EXCEPT !.totalNotifications = CountSent(notificationLog)]

StatsFaultResponse ==
    [status |-> 500, body |-> [error |-> "Failed to get statistics"]]

StatsResponse(s) ==
    [status |-> 200,
     body |-> [success |-> TRUE,
               stats |-> [totalActiveTokens |-> s.totalActive,
                          totalInactiveTokens |-> s.totalInactive,
                          notificationsSent24h |-> s.recentNotifications,
                          totalNotificationsSent |-> s.totalNotifications]]]

\* A stats request arrives.
StatsStart ==
    /\ st.pc = "idle"
    /\ nlog < MaxLogRequests
    /\ nlog' = nlog + 1
    /\ now' = now + 1
    /\ st' = [StIdle EXCEPT !.pc = "read"]
    /\ UNCHANGED <<pushToken, notificationLog, expoCalls, bc, nreq, rg, un, napi>>
    /\ UNCHANGED <<errorLog, el, eg>>

\* The next read resolves; after the last one the stats are returned.
StatsRead ==
    /\ st.pc = "read"
    /\ LET s == AfterRead(st, StatsReads[st.next])
       IN  st' = IF st.next < Len(StatsReads)
                 THEN [s EXCEPT !.next = st.next + 1]
                 ELSE [s EXCEPT !.pc = "done", !.response = StatsResponse(s)]
    /\ UNCHANGED <<pushToken, notificationLog, expoCalls, bc, now, nreq, rg, un, napi>>
    /\ UNCHANGED <<errorLog, el, eg, nlog>>

\* A read throws: the catch.
StatsReadFails ==
    /\ st.pc = "read"
    /\ st' = [st EXCEPT !.pc = "done", !.response = StatsFaultResponse]
    /\ UNCHANGED <<pushToken, notificationLog, expoCalls, bc, now, nreq, rg, un, napi>>
    /\ UNCHANGED <<errorLog, el, eg, nlog>>

\* The invocation has returned; the next request may be served.
StatsReturn ==
    /\ st.pc = "done"
    /\ st' = StIdle
    /\ UNCHANGED <<pushToken, notificationLog, expoCalls, bc, now, nreq, rg, un, napi>>
    /\ UNCHANGED <<errorLog, el, eg, nlog>>

\* The log tables of at most MaxSeededLogs rows written more than a day
\* ago by an earlier broadcast.
SeededLogs ==
    {EmptyBag} \cup
    {SetToBag({[req |-> 0, tokenId |-> i, title |-> "Hello", body |-> "Hello",
                status |-> "sent", ticketId |-> "null", sentAt |-> 0 - Day] :
                  i \in 1..n}) : n \in 1..MaxSeededLogs}

InitStats ==
    /\ pushToken \in SmallSeededTables
    /\ notificationLog \in SeededLogs
    /\ expoCalls = <<>>
    /\ bc = [p \in {1} |-> Idle]
    /\ now = 1
    /\ nreq = 0
    /\ rg = [q \in 1..MaxApiRequests |-> RegIdle]
    /\ un = UnIdle
    /\ napi = 0
    /\ LogsIdle

NextStats ==
    \/ \E p \in Slots : BroadcastBadJson(p)
    \/ \E p \in Slots : \E title \in FieldValues, body \in FieldValues :
           BroadcastStart(p, title, body)
    \/ \E p \in Slots : FindMany(p)
    \/ \E p \in Slots : FindManyFails(p)
    \/ \E p \in Slots : SendChunkCall(p)
    \/ \E p \in Slots : SendChunkOk(p)
    \/ \E p \in Slots : SendChunkFails(p)
    \/ \E p \in Slots : \E k \in 1..Len(TokenStrings) : LogCreateOk(p, k)
    \/ \E p \in Slots : \E k \in 1..Len(TokenStrings) : LogCreateFails(p, k)
    \/ \E p \in Slots : UpdateMany(p)
    \/ \E p \in Slots : UpdateManyFails(p)
    \/ \E p \in Slots : BroadcastReturn(p)
    \/ StatsStart
    \/ StatsRead
    \/ StatsReadFails
    \/ StatsReturn

SpecStats == InitStats /\ [][NextStats]_vars

(***************************************************************************)
(* What the properties below read off a state.                             *)
(***************************************************************************)
\* The gateway calls of request r, in the order the gateway received them.
CallsOfReq(r) == SelectSeq(expoCalls, LAMBDA c : c.req = r)

\* The NotificationLog rows of request r, and those of them for token id.
LogsOfReq(r) ==
    LET rows == {x \in BagToSet(notificationLog) : x.req = r}
    IN  [x \in rows |-> notificationLog[x]]

LogsOfToken(r, id) ==
    LET rows == {x \in BagToSet(notificationLog) : x.req = r /\ x.tokenId = id}
    IN  [x \in rows |-> notificationLog[x]]

RowCount(bag) == IF DOMAIN bag = {} THEN 0 ELSE BagCardinality(bag)

\* ceil(n / d)
CeilDiv(n, d) == (n + d - 1) \div d

\* The invocation in slot p has returned.
Returned(p) == bc[p].pc = "done"

\* The snapshot of slot p: its length, and whether every row passes the check.
SnapshotSize(p) == Len(bc[p].tokens)
AllValid(p) == \A k \in 1..Len(bc[p].tokens) : IsExpoPushToken(bc[p].tokens[k].token)
ValidCount(p) ==
    Cardinality({k \in 1..Len(bc[p].tokens) : IsExpoPushToken(bc[p].tokens[k].token)})

\* Log writes of slot p by outcome.
Rejected(p) == {k \in DOMAIN bc[p].settled : bc[p].settled[k] = "rejected"}
Fulfilled(p) == {k \in DOMAIN bc[p].settled : bc[p].settled[k] = "fulfilled"}

\* The rows whose lastUsedAt was written since the latest request arrived
\* (the clock advances on arrival, and rows are seeded in the past).
TouchedNow == {i \in DOMAIN pushToken : pushToken[i].lastUsedAt = now}

\* The response of slot p is the aggregate result.
IsResult(p) ==
    /\ bc[p].response.status = 200
    /\ Has(bc[p].response.body, "tickets")


(***************************************************************************)
(* C1: a broadcast over a snapshot of N active tokens that all pass the    *)
(* format check calls the gateway ceil(N/BatchSize) times, with batches of *)
(* BatchSize messages except a possibly shorter last one, addressed to the *)
(* snapshot's tokens in order; its result has sent = N; and one log write  *)
(* is made per token, so that N rows are created, less the writes the log  *)
(* store rejected, whichever batch calls failed.                           *)
(***************************************************************************)
C1_BatchesSentAndLogs ==
    \A p \in Slots :
        (Returned(p) /\ bc[p].findMany = "resolved" /\ AllValid(p)) =>
            LET N == SnapshotSize(p)
                m == CeilDiv(N, BatchSize)
                calls == CallsOfReq(bc[p].req)
            IN  /\ Len(calls) = m
                /\ \A i \in 1..Len(calls) :
                      /\ Len(calls[i].chunk) =
                            IF i < m THEN BatchSize ELSE N - (m - 1) * BatchSize
                      /\ \A j \in 1..Len(calls[i].chunk) :
                            calls[i].chunk[j].to =
                                bc[p].tokens[(i - 1) * BatchSize + j].token
                /\ bc[p].updateMany = "resolved" => IsResult(p)
                /\ Has(bc[p].response.body, "sent") => bc[p].response.body.sent = N
                /\ Len(bc[p].settled) = N
                /\ RowCount(LogsOfReq(bc[p].req)) = N - Cardinality(Rejected(p))
                /\ \A k \in 1..N :
                      RowCount(LogsOfToken(bc[p].req, bc[p].tokens[k].id)) =
                          IF k \in Rejected(p) THEN 0 ELSE 1

\* Three valid tokens, two batches (2 and 1) of which one failed and one
\* succeeded, the result returned and three log rows written.
C1_Witness ==
    \E p \in Slots :
        /\ Returned(p) /\ AllValid(p) /\ SnapshotSize(p) = 3
        /\ IsResult(p)
        /\ \E i, j \in 1..Len(CallsOfReq(bc[p].req)) :
              CallsOfReq(bc[p].req)[i].ok /\ ~CallsOfReq(bc[p].req)[j].ok
        /\ RowCount(LogsOfReq(bc[p].req)) = 3

\* The tickets the gateway returned over a sequence of calls.
RECURSIVE TicketsOfCalls(_)
TicketsOfCalls(calls) ==
    IF calls = <<>> THEN <<>>
    ELSE (IF Head(calls).ok THEN TicketsFor(Head(calls).chunk) ELSE <<>>)
             \o TicketsOfCalls(Tail(calls))

\* The calls of request r that failed at the gateway.
FailedCalls(r) ==
    {i \in 1..Len(CallsOfReq(r)) : ~CallsOfReq(r)[i].ok}

(***************************************************************************)
(* C2: when exactly one batch of a broadcast fails at the gateway and the  *)
(* others succeed, the result's errors list has exactly one entry, its     *)
(* tickets are exactly those of the succeeding batches, in partition       *)
(* order, and a log row is written for every targeted token, those of the  *)
(* failed batch included (a row is missing only where the log store        *)
(* rejected the write).                                                    *)
(***************************************************************************)
C2_OneFailedBatch ==
    \A p \in Slots :
        (/\ Returned(p) /\ bc[p].findMany = "resolved"
         /\ Cardinality(FailedCalls(bc[p].req)) = 1) =>
            LET calls == CallsOfReq(bc[p].req)
                k == CHOOSE i \in FailedCalls(bc[p].req) : TRUE
            IN  /\ bc[p].updateMany = "resolved" => IsResult(p)
                /\ IsResult(p) =>
                      /\ Has(bc[p].response.body, "errors")
                      /\ Len(bc[p].response.body.errors) = 1
                      /\ bc[p].response.body.tickets = TicketsOfCalls(calls)
                      /\ Len(bc[p].response.body.tickets) =
                            Len(bc[p].messages) - Len(calls[k].chunk)
                      /\ \A t \in 1..Len(bc[p].response.body.tickets) :
                            \A j \in 1..Len(calls[k].chunk) :
                                bc[p].response.body.tickets[t].to # calls[k].chunk[j].to
                /\ \A i \in 1..Len(bc[p].tokens) :
                      IsExpoPushToken(bc[p].tokens[i].token) =>
                          RowCount(LogsOfToken(bc[p].req, bc[p].tokens[i].id)) =
                              IF i \in Rejected(p) THEN 0 ELSE 1

\* Two batches, the first failed and the second succeeded; the result is
\* returned and a token of the failed batch has its log row.
C2_Witness ==
    \E p \in Slots :
        /\ Returned(p) /\ IsResult(p)
        /\ Len(CallsOfReq(bc[p].req)) = 2
        /\ FailedCalls(bc[p].req) = {1}
        /\ Len(bc[p].response.body.tickets) >= 1
        /\ \E i \in 1..Len(bc[p].tokens) :
              /\ bc[p].tokens[i].token = CallsOfReq(bc[p].req)[1].chunk[1].to
              /\ RowCount(LogsOfToken(bc[p].req, bc[p].tokens[i].id)) = 1

(***************************************************************************)
(* C3: a broadcast request whose title or body is missing or empty gets    *)
(* the 400 response and nothing else happens: the token store is neither   *)
(* read nor updated, the gateway is not called and no log row is written.  *)
(***************************************************************************)
C3_ValidationBeforeSideEffects ==
    \A p \in Slots :
        (/\ bc[p].json
         /\ \/ bc[p].title.kind = "undefined" \/ bc[p].title.str = ""
            \/ bc[p].body.kind = "undefined" \/ bc[p].body.str = "") =>
            /\ Returned(p)
            /\ bc[p].response.status = 400
            /\ Has(bc[p].response.body, "error")
            /\ bc[p].findMany = "notcalled"
            /\ bc[p].updateMany = "notcalled"
            /\ bc[p].tokens = <<>> /\ bc[p].settled = <<>>
            /\ CallsOfReq(bc[p].req) = <<>>
            /\ RowCount(LogsOfReq(bc[p].req)) = 0
            /\ TouchedNow = {}

\* A request with a title and an empty body was rejected while the table
\* held an active token.
C3_Witness ==
    \E p \in Slots :
        /\ Returned(p) /\ bc[p].json
        /\ bc[p].title = Str("Hello") /\ bc[p].body = Str("")
        /\ bc[p].response.status = 400
        /\ \E i \in DOMAIN pushToken : pushToken[i].isActive

(***************************************************************************)
(* C4: a broadcast whose snapshot of active tokens is empty answers with   *)
(* status 200, success = false and sent = 0, and makes no gateway call,    *)
(* writes no log row and updates no lastUsedAt.                            *)
(***************************************************************************)
C4_EmptySnapshot ==
    \A p \in Slots :
        (bc[p].findMany = "resolved" /\ SnapshotSize(p) = 0) =>
            /\ Returned(p)
            /\ bc[p].response.status = 200
            /\ Has(bc[p].response.body, "success")
            /\ bc[p].response.body.success = FALSE
            /\ bc[p].response.body.sent = 0
            /\ ~Has(bc[p].response.body, "error")
            /\ CallsOfReq(bc[p].req) = <<>>
            /\ bc[p].settled = <<>>
            /\ RowCount(LogsOfReq(bc[p].req)) = 0
            /\ bc[p].updateMany = "notcalled"
            /\ TouchedNow = {}

\* The table holds rows, all inactive, and the broadcast returned sent = 0.
C4_Witness ==
    \E p \in Slots :
        /\ Returned(p) /\ bc[p].findMany = "resolved" /\ SnapshotSize(p) = 0
        /\ Len(pushToken) >= 2
        /\ bc[p].response.body.sent = 0

(***************************************************************************)
(* C5: a snapshot token whose string fails the format check is in no       *)
(* message and in no batch the gateway receives, and the result's sent is  *)
(* the number of snapshot tokens that pass the check.                      *)
(***************************************************************************)
C5_InvalidTokensNotSent ==
    \A p \in Slots :
        bc[p].findMany = "resolved" =>
            /\ \A k \in 1..Len(bc[p].messages) : IsExpoPushToken(bc[p].messages[k].to)
            /\ \A c \in 1..Len(CallsOfReq(bc[p].req)) :
                  \A j \in 1..Len(CallsOfReq(bc[p].req)[c].chunk) :
                      IsExpoPushToken(CallsOfReq(bc[p].req)[c].chunk[j].to)
            /\ Len(bc[p].messages) = ValidCount(p)
            /\ IsResult(p) => bc[p].response.body.sent = ValidCount(p)

\* A snapshot with a malformed token and two well-formed ones: the result
\* counts two and the gateway was called.
C5_Witness ==
    \E p \in Slots :
        /\ Returned(p) /\ IsResult(p)
        /\ SnapshotSize(p) = 3 /\ ValidCount(p) = 2
        /\ bc[p].response.body.sent = 2
        /\ Len(CallsOfReq(bc[p].req)) = 1

(***************************************************************************)
(* C6: a snapshot token whose string fails the format check gets no log    *)
(* row from the broadcast and its lastUsedAt is left as the snapshot read  *)
(* it: log rows and the last-used update cover the filtered send set only. *)
(***************************************************************************)
C6_InvalidTokensNotLoggedNorTouched ==
    \A p \in Slots :
        (Returned(p) /\ bc[p].findMany = "resolved") =>
            \A k \in 1..Len(bc[p].tokens) :
                ~IsExpoPushToken(bc[p].tokens[k].token) =>
                    /\ RowCount(LogsOfToken(bc[p].req, bc[p].tokens[k].id)) = 0
                    /\ pushToken[bc[p].tokens[k].id].lastUsedAt =
                          bc[p].tokens[k].lastUsedAt

(***************************************************************************)
(* C7: when the bulk last-used update fails, the caller still gets the     *)
(* aggregate result (success = true, sent, tickets), not an error status.  *)
(***************************************************************************)
C7_UpdateFailureNotEscalated ==
    \A p \in Slots :
        (Returned(p) /\ bc[p].updateMany = "threw") =>
            /\ bc[p].response.status = 200
            /\ IsResult(p)
            /\ bc[p].response.body.success = TRUE

(***************************************************************************)
(* C8: once a log write of a broadcast has failed, every other log write   *)
(* can still settle, the last-used update is still made once all have      *)
(* settled, and the result returned is the one the gateway outcomes alone  *)
(* determine: status 200, success, sent, the tickets and the errors.       *)
(***************************************************************************)
C8_LogWriteFailureIsolated ==
    \A p \in Slots :
        Rejected(p) # {} =>
            /\ bc[p].pc \in {"logs", "done"}
            /\ bc[p].pc = "logs" =>
                  /\ \A k \in DOMAIN bc[p].settled :
                        bc[p].settled[k] = "pending" => ENABLED LogCreateOk(p, k)
                  /\ AllSettled(p) => ENABLED UpdateMany(p)
            /\ Returned(p) =>
                  /\ \A k \in 1..Len(bc[p].tokens) : bc[p].settled[k] # "pending"
                  /\ \A k \in Fulfilled(p) :
                        RowCount(LogsOfToken(bc[p].req, bc[p].tokens[k].id)) = 1
                  /\ bc[p].updateMany # "notcalled"
                  /\ bc[p].updateMany = "resolved" =>
                        /\ \A k \in 1..Len(bc[p].tokens) :
                              pushToken[bc[p].tokens[k].id].lastUsedAt = now
                        /\ bc[p].response.status = 200
                        /\ bc[p].response.body.success = TRUE
                        /\ bc[p].response.body.sent = Len(bc[p].messages)
                        /\ bc[p].response.body.tickets =
                              TicketsOfCalls(CallsOfReq(bc[p].req))
                        /\ Has(bc[p].response.body, "errors") <=>
                              FailedCalls(bc[p].req) # {}

\* The first of three log writes was rejected, the other two fulfilled,
\* the update was made and the result returned.
C8_Witness ==
    \E p \in Slots :
        /\ Returned(p) /\ IsResult(p)
        /\ SnapshotSize(p) = 3
        /\ Rejected(p) = {1} /\ Fulfilled(p) = {2, 3}
        /\ bc[p].updateMany = "resolved"
        /\ RowCount(LogsOfReq(bc[p].req)) = 2

(***************************************************************************)
(* C9: every log row a broadcast creates has status "sent" and no ticket   *)
(* id, whether its token's batch succeeded or failed, and no token has     *)
(* more than one row from the same broadcast.                              *)
(***************************************************************************)
C9_LogRowsSentOncePerToken ==
    /\ \A x \in BagToSet(notificationLog) :
          x.status = "sent" /\ x.ticketId = "null"
    /\ \A r \in 1..nreq : \A i \in DOMAIN pushToken :
          RowCount(LogsOfToken(r, i)) <= 1

\* Two batches, the first failed and the second succeeded, and a token of
\* each has its row.
C9_Witness ==
    \E p \in Slots :
        LET calls == CallsOfReq(bc[p].req)
        IN  /\ Len(calls) = 2 /\ ~calls[1].ok /\ calls[2].ok
            /\ \E x, y \in BagToSet(notificationLog) :
                  /\ x.req = bc[p].req /\ y.req = bc[p].req
                  /\ pushToken[x.tokenId].token = calls[1].chunk[1].to
                  /\ pushToken[y.tokenId].token = calls[2].chunk[1].to

(***************************************************************************)
(* C10: a broadcast over a non-empty snapshot that runs to completion      *)
(* answers with status 200 and success = true whatever the batch outcomes, *)
(* also when every batch failed; the failed batches show only as the       *)
(* entries of the result's errors list, one per failed batch.              *)
(***************************************************************************)
C10_SuccessWhateverTheBatches ==
    \A p \in Slots :
        (Returned(p) /\ bc[p].updateMany = "resolved") =>
            /\ SnapshotSize(p) > 0
            /\ bc[p].response.status = 200
            /\ Has(bc[p].response.body, "success")
            /\ bc[p].response.body.success = TRUE
            /\ ~Has(bc[p].response.body, "error")
            /\ IF FailedCalls(bc[p].req) = {}
               THEN ~Has(bc[p].response.body, "errors")
               ELSE /\ Has(bc[p].response.body, "errors")
                    /\ Len(bc[p].response.body.errors) =
                          Cardinality(FailedCalls(bc[p].req))

\* Both batches of a broadcast failed and the result says success.
C10_Witness ==
    \E p \in Slots :
        /\ Returned(p) /\ bc[p].updateMany = "resolved"
        /\ Len(CallsOfReq(bc[p].req)) = 2
        /\ FailedCalls(bc[p].req) = {1, 2}
        /\ bc[p].response.body.success = TRUE
        /\ bc[p].response.body.tickets = <<>>

\* The messages of a sequence of chunks, in order.
RECURSIVE Flatten(_)
Flatten(chunks) ==
    IF chunks = <<>> THEN <<>> ELSE Head(chunks) \o Flatten(Tail(chunks))

(***************************************************************************)
(* C11: the batches of a broadcast partition its messages in order and go  *)
(* to the gateway one at a time in that order: while a call is in flight   *)
(* or about to start, exactly the earlier batches have returned or failed, *)
(* each once; and once the loop is over every batch has been attempted     *)
(* exactly once, whichever of them failed.                                 *)
(***************************************************************************)
C11_SequentialOnceEach ==
    \A p \in Slots :
        bc[p].findMany = "resolved" =>
            LET calls == CallsOfReq(bc[p].req)
                chunks == bc[p].chunks
            IN  /\ Flatten(chunks) = bc[p].messages
                /\ Len(calls) <= Len(chunks)
                /\ \A i \in 1..Len(calls) : calls[i].chunk = chunks[i]
                /\ bc[p].pc \in {"send", "sending"} =>
                      /\ bc[p].next \in 1..Len(chunks)
                      /\ Len(calls) = bc[p].next - 1
                /\ bc[p].pc \in {"logs", "done"} => Len(calls) = Len(chunks)

\* The first of two batches failed and the call for the second is in flight.
C11_Witness ==
    \E p \in Slots :
        /\ bc[p].pc = "sending" /\ bc[p].next = 2
        /\ Len(bc[p].chunks) = 2
        /\ Len(CallsOfReq(bc[p].req)) = 1
        /\ ~CallsOfReq(bc[p].req)[1].ok

\* A step of a broadcast invocation: any step that moves a slot of bc.
BroadcastStep == bc' # bc

\* Rows whose token string fails the format check.
InvalidRows == {i \in DOMAIN pushToken : ~IsExpoPushToken(pushToken[i].token)}

\* C12: no step of a broadcast, whatever register and unregister requests
\* run beside it, adds a PushToken row, removes one, or changes a row's
\* id, token string or active flag; so a row whose token fails the format
\* check is as active after the broadcast as before.
C12_BroadcastKeepsRows ==
    [][BroadcastStep =>
          /\ Len(pushToken') = Len(pushToken)
          /\ \A i \in DOMAIN pushToken :
                /\ pushToken'[i].id = pushToken[i].id
                /\ pushToken'[i].token = pushToken[i].token
                /\ pushToken'[i].isActive = pushToken[i].isActive]_vars

\* A broadcast gave its result, its bulk update done, beside a register
\* request, and a row with a malformed token it read is still active.
C12_Witness ==
    \E p \in Slots :
        /\ IsResult(p)
        /\ bc[p].updateMany = "resolved"
        /\ \E q \in RegSlots : rg[q].pc # "idle"
        /\ \E i \in InvalidRows :
              /\ pushToken[i].isActive
              /\ \E k \in 1..Len(bc[p].tokens) : bc[p].tokens[k].id = i

\* The ids and the well-formed token strings of slot p's snapshot.
SnapshotIds(p) == {bc[p].tokens[k].id : k \in 1..Len(bc[p].tokens)}
SnapshotValid(p) ==
    {bc[p].tokens[k].token :
        k \in {n \in 1..Len(bc[p].tokens) : IsExpoPushToken(bc[p].tokens[n].token)}}

\* The token strings the gateway was called with for request r.
Recipients(r) ==
    LET calls == CallsOfReq(r)
    IN  UNION {{calls[i].chunk[n].to : n \in 1..Len(calls[i].chunk)} :
                  i \in 1..Len(calls)}

\* The read of the active tokens: the snapshot is the rows active then.
SnapshotRead(p) ==
    (bc[p].findMany = "notcalled" /\ bc'[p].findMany = "resolved") =>
        bc'[p].tokens = SelectSeq(pushToken, LAMBDA row : row.isActive)

\* No later step of the invocation changes the snapshot or the messages.
SnapshotKept(p) ==
    (bc[p].findMany = "resolved" /\ bc'[p].pc # "idle") =>
        /\ bc'[p].tokens = bc[p].tokens
        /\ bc'[p].messages = bc[p].messages

\* What the invocation sends and logs is read off its snapshot, not off
\* the table as it is now.
SnapshotServed(p) ==
    bc[p].findMany = "resolved" =>
        /\ {bc[p].messages[k].to : k \in 1..Len(bc[p].messages)} = SnapshotValid(p)
        /\ Recipients(bc[p].req) \subseteq SnapshotValid(p)
        /\ \A x \in DOMAIN LogsOfReq(bc[p].req) : x.tokenId \in SnapshotIds(p)
        /\ bc[p].pc \in {"logs", "done"} =>
              /\ Recipients(bc[p].req) = SnapshotValid(p)
              /\ Len(bc[p].settled) = Len(bc[p].tokens)
        /\ \A k \in Fulfilled(p) :
              RowCount(LogsOfToken(bc[p].req, bc[p].tokens[k].id)) = 1

\* C13: a broadcast's recipients are fixed by its one read of the active
\* tokens.  A token registered or re-activated after the read is neither
\* messaged nor logged by the broadcast; a token deactivated after the
\* read is messaged and logged all the same.
C13_SnapshotFixed ==
    [][\A p \in Slots : SnapshotRead(p) /\ SnapshotKept(p) /\ SnapshotServed(p)']_vars

\* A broadcast has given its result.  One token of its snapshot was
\* unregistered after the read, and was messaged and logged; another row
\* is active by a registration after the read, and was neither.
C13_Witness ==
    \E p \in Slots :
        /\ IsResult(p)
        /\ \E k \in 1..Len(bc[p].tokens) :
              /\ ~pushToken[bc[p].tokens[k].id].isActive
              /\ bc[p].tokens[k].token \in Recipients(bc[p].req)
              /\ RowCount(LogsOfToken(bc[p].req, bc[p].tokens[k].id)) = 1
        /\ \E i \in DOMAIN pushToken :
              /\ pushToken[i].isActive
              /\ i \notin SnapshotIds(p)
              /\ IsExpoPushToken(pushToken[i].token)
              /\ pushToken[i].token \notin Recipients(bc[p].req)
              /\ RowCount(LogsOfToken(bc[p].req, i)) = 0

\* The step on which slot p's bulk update of lastUsedAt resolves.
BulkUpdateStep(p) ==
    bc[p].updateMany = "notcalled" /\ bc'[p].updateMany = "resolved"

\* C14: a token of a broadcast's snapshot that was unregistered between
\* the read and the bulk update (it is in the snapshot, and inactive when
\* the update runs) has its lastUsedAt refreshed by the update all the
\* same, and is still inactive after it.
C14_UnregisteredStillTouched ==
    [][\A p \in Slots :
          BulkUpdateStep(p) =>
              \A id \in SnapshotIds(p) :
                  ~pushToken[id].isActive =>
                      /\ pushToken'[id].lastUsedAt = now
                      /\ ~pushToken'[id].isActive]_vars

\* The bulk update has run over a snapshot one of whose tokens an
\* unregister request had made inactive in the meantime.
C14_Witness ==
    \E p \in Slots :
        /\ bc[p].updateMany = "resolved"
        /\ un.response.status = 200
        /\ \E k \in 1..Len(bc[p].tokens) :
              /\ un.token.str = bc[p].tokens[k].token
              /\ ~pushToken[bc[p].tokens[k].id].isActive
              /\ pushToken[bc[p].tokens[k].id].lastUsedAt = now
              /\ bc[p].tokens[k].lastUsedAt < now

\* The rows holding token string t.
RowsOfToken(t) == {i \in DOMAIN pushToken : pushToken[i].token = t}

\* Register invocation q was answered with success.
Registered(q) == rg[q].pc = "done" /\ rg[q].response.status = 200

\* The lookup of a token string that has a row finds that row.
RegisterFinds(q) ==
    (rg[q].pc = "findUnique" /\ rg'[q].pc # "findUnique"
        /\ rg'[q].response.status # 500 /\ RowsOfToken(rg[q].token.str) # {}) =>
        /\ rg'[q].pc = "update"
        /\ rg'[q].existing \in RowsOfToken(rg[q].token.str)

\* The update of the row found: no row more, the row active, its id in
\* the answer, and every row's id and token as before.
RegisterUpdates(q) ==
    (rg[q].pc = "update" /\ rg'[q].response.status = 200) =>
        /\ Len(pushToken') = Len(pushToken)
        /\ \A i \in DOMAIN pushToken :
              /\ pushToken'[i].id = pushToken[i].id
              /\ pushToken'[i].token = pushToken[i].token
        /\ pushToken'[rg[q].existing].token = rg[q].token.str
        /\ pushToken'[rg[q].existing].isActive
        /\ rg'[q].response.body.tokenId = rg[q].existing

\* A successful answer names the one row that holds the token string, so
\* two successful answers for one token string name the same row.
RegisterAnswers(q) ==
    Registered(q) =>
        /\ RowsOfToken(rg[q].token.str) = {rg[q].response.body.tokenId}
        /\ \A o \in RegSlots :
              (Registered(o) /\ rg[o].token = rg[q].token) =>
                  rg[o].response.body.tokenId = rg[q].response.body.tokenId

\* C15: registering a token string that has a row, active or not, updates
\* that row and answers with its id, adds no row, and leaves the row
\* active; so two registrations of one valid token string in sequence
\* are answered with the same tokenId and leave exactly one row.
C15_RegisterIdempotent ==
    [][\A q \in RegSlots :
          RegisterFinds(q) /\ RegisterUpdates(q) /\ RegisterAnswers(q)']_vars

\* Two registrations of one token string in sequence: the first created
\* the row, the second updated it, and both were given its id.
C15_Witness ==
    /\ Registered(1) /\ Registered(2)
    /\ rg[1].token = rg[2].token
    /\ rg[1].response.body.message = "Token registered successfully"
    /\ rg[2].response.body.message = "Token updated successfully"
    /\ rg[1].response.body.tokenId = rg[2].response.body.tokenId
    /\ Cardinality(RowsOfToken(rg[1].token.str)) = 1
    /\ pushToken[rg[2].response.body.tokenId].isActive

\* C16: in every reachable state, whatever register, unregister and
\* broadcast requests were served and however they interleaved, no two
\* PushToken rows hold the same token string, active or not.
C16_TokenUnique ==
    \A i \in DOMAIN pushToken : \A j \in DOMAIN pushToken :
        pushToken[i].token = pushToken[j].token => i = j

\* Two register requests for one new token string both found no row; one
\* created it, and the other's create was refused.
C16_Witness ==
    \E q \in RegSlots : \E o \in RegSlots :
        /\ q # o
        /\ rg[q].token = rg[o].token
        /\ rg[q].existing = 0 /\ rg[o].existing = 0
        /\ Registered(q)
        /\ rg[q].response.body.message = "Token registered successfully"
        /\ rg[o].pc = "done" /\ rg[o].response.status = 500
        /\ Cardinality(RowsOfToken(rg[q].token.str)) = 1

\* The step on which the unregister handler's update resolves.
UnregisterStep == un.pc = "updateMany" /\ un'.response.status = 200

\* C17: no step of any operation removes a PushToken row or changes a
\* row's id or token string, so the set of rows never shrinks; and an
\* unregistration only sets to false the active flag of the rows holding
\* the token string it was given.
C17_NeverDeleted ==
    [][/\ Len(pushToken') >= Len(pushToken)
       /\ \A i \in DOMAIN pushToken :
             /\ pushToken'[i].id = pushToken[i].id
             /\ pushToken'[i].token = pushToken[i].token
       /\ UnregisterStep =>
             /\ Len(pushToken') = Len(pushToken)
             /\ \A i \in DOMAIN pushToken :
                   IF pushToken[i].token = un.token.str
                   THEN /\ ~pushToken'[i].isActive
                        /\ pushToken'[i].lastUsedAt = pushToken[i].lastUsedAt
                   ELSE pushToken'[i] = pushToken[i]]_vars

\* An unregistration matched a row: the row is still there, inactive.
C17_Witness ==
    /\ un.pc = "done"
    /\ un.response.status = 200
    /\ un.response.body.count = 1
    /\ \E i \in DOMAIN pushToken :
          pushToken[i].token = un.token.str /\ ~pushToken[i].isActive

\* C18: an unregistration whose token string no row holds is answered
\* with success = true and count = 0 and changes no row; and an
\* unregistration is idempotent on the table: the table it leaves is the
\* table a second unregistration of the same token string would leave,
\* and rows already inactive are left as they are.
C18_UnregisterIdempotent ==
    [][UnregisterStep =>
          LET matched == RowsOfToken(un.token.str)
          IN  /\ un'.response.body.success
              /\ un'.response.body.count = Cardinality(matched)
              /\ matched = {} =>
                    /\ un'.response.body.count = 0
                    /\ pushToken' = pushToken
              /\ (\A i \in matched : ~pushToken[i].isActive) => pushToken' = pushToken
              /\ UnregisterRows(pushToken', un.token.str) = pushToken']_vars

\* An unregistration of a token string that no row of a table with rows
\* holds was answered with success and count 0.
C18_Witness ==
    /\ un.pc = "done"
    /\ un.response.status = 200
    /\ un.response.body.success
    /\ un.response.body.count = 0
    /\ Len(pushToken) > 0
    /\ RowsOfToken(un.token.str) = {}
    /\ \E i \in DOMAIN pushToken : pushToken[i].isActive

\* C19: a broadcast that met an internal fault answers 500 with a body
\* that has an error text and no sent, tickets or errors field; and when
\* the fault is the failure of the read of the active tokens, no gateway
\* call and no log write was made for the request, and no row touched.
C19_FaultIsGeneric ==
    \A p \in Slots :
        /\ (bc[p].findMany = "threw" \/ bc[p].updateMany = "threw") =>
              /\ Returned(p)
              /\ bc[p].response.status = 500
        /\ (Returned(p) /\ bc[p].response.status = 500) =>
              /\ Has(bc[p].response.body, "error")
              /\ ~Has(bc[p].response.body, "sent")
              /\ ~Has(bc[p].response.body, "tickets")
              /\ ~Has(bc[p].response.body, "errors")
        /\ bc[p].findMany = "threw" =>
              /\ Len(CallsOfReq(bc[p].req)) = 0
              /\ RowCount(LogsOfReq(bc[p].req)) = 0
              /\ bc[p].updateMany = "notcalled"
              /\ TouchedNow = {}

\* The read of the active tokens failed over a table with active rows.
C19_Witness ==
    \E p \in Slots :
        /\ bc[p].findMany = "threw"
        /\ bc[p].response.status = 500
        /\ \E i \in DOMAIN pushToken :
              pushToken[i].isActive /\ IsExpoPushToken(pushToken[i].token)

\* C20: a register request whose body carries a well-formed push token in
\* the field expoPushToken, as the mobile integration guide documents it,
\* registers the token: once answered, the answer is success = true with
\* a tokenId, and a row holds the token string.
C20_DocumentedBodyRegisters ==
    \A q \in RegSlots :
        (/\ rg[q].pc = "done"
         /\ Has(rg[q].body, "expoPushToken")
         /\ IsExpoPushToken(Field(rg[q].body, "expoPushToken").str)) =>
            /\ rg[q].response.status = 200
            /\ Has(rg[q].response.body, "tokenId")
            /\ rg[q].response.body.success
            /\ RowsOfToken(Field(rg[q].body, "expoPushToken").str) # {}

\* The step on which register invocation q reads a body whose token
\* is absent or fails the format check.
RegisterRejectStep(q) ==
    /\ rg[q].pc = "idle"
    /\ rg'[q].pc # "idle"
    /\ rg'[q].body # EmptyObject
    /\ rg'[q].token.kind = "undefined" \/ ~IsExpoPushToken(rg'[q].token.str)

\* C21: a register request whose token fails the format check is
\* answered 400 on the spot, before any call on the token store: the
\* table is as it was, no row created and none updated.
C21_InvalidTokenRejected ==
    [][\A q \in RegSlots :
          RegisterRejectStep(q) =>
              /\ rg'[q].pc = "done"
              /\ rg'[q].response.status = 400
              /\ Has(rg'[q].response.body, "error")
              /\ pushToken' = pushToken]_vars

\* A malformed token string was rejected; the row that holds the same
\* string is still inactive and untouched.
C21_Witness ==
    \E q \in RegSlots :
        /\ rg[q].pc = "done"
        /\ rg[q].response.status = 400
        /\ rg[q].token.kind = "string"
        /\ \E i \in DOMAIN pushToken :
              /\ pushToken[i].token = rg[q].token.str
              /\ ~pushToken[i].isActive
              /\ pushToken[i].lastUsedAt = 0

\* The responses that have been given and not yet collected.
ErrorResponses ==
    {r \in {bc[p].response : p \in Slots} \cup {rg[q].response : q \in RegSlots}
            \cup {un.response} : r.status >= 400}

\* C22: every error response of the send, register and unregister
\* endpoints has a body with an error message and success = false.
C22_ErrorBodyHasSuccessFalse ==
    \A r \in ErrorResponses :
        /\ Has(r.body, "error")
        /\ Has(r.body, "success")
        /\ r.body.success = FALSE

\* C25: two register requests for one valid token string that had no row
\* when each looked it up, whose store calls met no fault of the store's
\* own, are both answered with success and the same tokenId, and exactly
\* one row holds the token string afterwards.
C25_ConcurrentRegistersAgree ==
    \A q \in RegSlots : \A o \in RegSlots :
        (/\ q # o
         /\ rg[q].pc = "done" /\ rg[o].pc = "done"
         /\ rg[q].token = rg[o].token
         /\ rg[q].token.kind = "string" /\ IsExpoPushToken(rg[q].token.str)
         /\ rg[q].existing = 0 /\ rg[o].existing = 0
         /\ ~rg[q].fault /\ ~rg[o].fault) =>
            /\ Registered(q) /\ Registered(o)
            /\ rg[q].response.body.tokenId = rg[o].response.body.tokenId
            /\ Cardinality(RowsOfToken(rg[q].token.str)) = 1

\* Log writes of slot p not yet settled.
Pending(p) == {k \in DOMAIN bc[p].settled : bc[p].settled[k] = "pending"}

\* C26: the steps of one broadcast are in order.  No log write is issued
\* before every batch was attempted; the bulk update of lastUsedAt is
\* called only when every log write has settled, fulfilled or rejected;
\* and the aggregate result is returned only when the bulk update has
\* resolved.
C26_StepsInOrder ==
    \A p \in Slots :
        /\ (bc[p].pc = "logs" \/ Len(bc[p].settled) > 0
                \/ RowCount(LogsOfReq(bc[p].req)) > 0) =>
              /\ bc[p].findMany = "resolved"
              /\ Len(CallsOfReq(bc[p].req)) = Len(bc[p].chunks)
        /\ bc[p].pc \in {"send", "sending"} =>
              /\ Len(bc[p].settled) = 0
              /\ RowCount(LogsOfReq(bc[p].req)) = 0
              /\ bc[p].updateMany = "notcalled"
        /\ bc[p].updateMany # "notcalled" =>
              /\ Pending(p) = {}
              /\ Len(bc[p].settled) = Len(bc[p].tokens)
              /\ Len(CallsOfReq(bc[p].req)) = Len(bc[p].chunks)
        /\ Pending(p) # {} => TouchedNow = {}
        /\ IsResult(p) => bc[p].updateMany = "resolved"

\* A broadcast of two batches, one of which failed, with a log write
\* rejected, has run all its steps and given its result.
C26_Witness ==
    \E p \in Slots :
        /\ IsResult(p)
        /\ Len(bc[p].chunks) = 2
        /\ FailedCalls(bc[p].req) # {}
        /\ Rejected(p) # {}
        /\ Fulfilled(p) # {}
        /\ TouchedNow # {}

\* C29: a broadcast whose snapshot has rows, none with a well-formed
\* token, calls the gateway not once, and its result is success = true
\* with sent = 0, no ticket and no errors field; the broadcast over an
\* empty snapshot is answered success = false.
C29_AllInvalidSnapshot ==
    \A p \in Slots :
        /\ (bc[p].findMany = "resolved" /\ SnapshotSize(p) > 0 /\ ValidCount(p) = 0) =>
              /\ Len(CallsOfReq(bc[p].req)) = 0
              /\ bc[p].pc \notin {"send", "sending"}
              /\ (Returned(p) /\ bc[p].updateMany # "threw") =>
                    /\ bc[p].response.status = 200
                    /\ bc[p].response.body.success = TRUE
                    /\ bc[p].response.body.sent = 0
                    /\ bc[p].response.body.tickets = <<>>
                    /\ ~Has(bc[p].response.body, "errors")
        /\ (bc[p].findMany = "resolved" /\ SnapshotSize(p) = 0 /\ Returned(p)) =>
              bc[p].response.body.success = FALSE

\* The result of a broadcast over a snapshot of one malformed token.
C29_Witness ==
    \E p \in Slots :
        /\ IsResult(p)
        /\ SnapshotSize(p) = 1
        /\ ValidCount(p) = 0
        /\ bc[p].response.body.success = TRUE
        /\ bc[p].response.body.sent = 0
        /\ expoCalls = <<>>

\* Some invocation has read its request and not yet answered it.
InFlight == \E p \in Slots : bc[p].pc \notin {"idle", "done"}

\* The response of slot p is one of the three structured responses.
Structured(p) ==
    \/ IsResult(p)
    \/ bc[p].response = EmptyAudienceResponse
    \/ bc[p].response.status = 400 /\ Has(bc[p].response.body, "error")
    \/ bc[p].response.status = 500 /\ Has(bc[p].response.body, "error")

\* C24: provided every call the handler awaits returns or fails, every
\* broadcast request is answered, and answered with a structured JSON
\* response: the aggregate result, the 400 validation error or the
\* generic 500 error.  No batch outcome and no store failure leaves a
\* request without its response, and a response once given is not
\* replaced by another.
C24_AlwaysAnswered ==
    /\ InFlight ~> ~InFlight
    /\ [](\A p \in Slots : Returned(p) => Structured(p))
    /\ [][\A p \in Slots : Returned(p) => (bc'[p] = bc[p] \/ bc'[p] = Idle)]_vars

\* A broadcast whose batch failed and whose log write was rejected has
\* been answered with the aggregate result.
C24_Witness ==
    \E p \in Slots :
        /\ Returned(p)
        /\ IsResult(p)
        /\ FailedCalls(bc[p].req) # {}
        /\ Rejected(p) # {}

\* Slot p's invocation ran to its result, and what the result should say
\* by the calls and writes of its own request alone.
OwnWork(p) ==
    LET N == SnapshotSize(p)
        calls == CallsOfReq(bc[p].req)
    IN  /\ Len(calls) = CeilDiv(N, BatchSize)
        /\ \A i \in 1..Len(calls) : calls[i].chunk = bc[p].chunks[i]
        /\ Flatten(bc[p].chunks) = bc[p].messages
        /\ Len(bc[p].messages) = N
        /\ RowCount(LogsOfReq(bc[p].req)) = N - Cardinality(Rejected(p))
        /\ \A k \in 1..N :
              RowCount(LogsOfToken(bc[p].req, bc[p].tokens[k].id)) =
                  IF k \in Rejected(p) THEN 0 ELSE 1
        /\ bc[p].response.body.sent = N
        /\ bc[p].response.body.tickets = TicketsOfCalls(calls)
        /\ IF FailedCalls(bc[p].req) = {}
           THEN ~Has(bc[p].response.body, "errors")
           ELSE Len(bc[p].response.body.errors) = Cardinality(FailedCalls(bc[p].req))

\* C27: two broadcasts running over the same N well-formed active tokens
\* neither coordinate nor deduplicate.  Under every interleaving each
\* sends all its own batches and makes its own log write per token, and
\* its result counts its own tickets and errors only; together they make
\* 2 * ceil(N / BatchSize) gateway calls and 2N log rows, less the writes
\* the log store rejected.
C27_NoDeduplication ==
    /\ \A p \in Slots : IsResult(p) => OwnWork(p)
    /\ (\A p \in Slots : IsResult(p)) =>
          LET N == Len(pushToken)
          IN  /\ \A p \in Slots : SnapshotSize(p) = N
              /\ Len(expoCalls) = Cardinality(Slots) * CeilDiv(N, BatchSize)
              /\ RowCount(notificationLog) + Cardinality(Rejected(1))
                    + Cardinality(Rejected(2)) = Cardinality(Slots) * N

\* Two broadcasts over three tokens ran interleaved, the second reading
\* the tokens before the first had sent its second batch; both gave
\* their result, after four gateway calls and six log rows.
C27_Witness ==
    /\ IsResult(1) /\ IsResult(2)
    /\ Len(pushToken) = 3
    /\ Len(expoCalls) = 4
    /\ expoCalls[1].req # expoCalls[2].req
    /\ expoCalls[2].req # expoCalls[3].req
    /\ RowCount(notificationLog) = 6
    /\ FailedCalls(bc[1].req) # {}
    /\ FailedCalls(bc[2].req) = {}

\* The step on which the error-report handler checks a report it has read.
ReportCheckStep == el.pc = "idle" /\ el'.pc # "idle" /\ el'.body # EmptyObject

\* A report lacks field f, or has it empty.
Lacks(body, f) == ~Has(body, f) \/ body[f].kind = "undefined" \/ body[f].str = ""

\* C23: an error report without errorType or without message, or with
\* either empty, is answered 400 and no ErrorLog row is created; a report
\* with both is passed to the store, whose create adds exactly one row,
\* with the report's type and message, and the answer carries the row's
\* id.
C23_ReportValidated ==
    [][/\ ReportCheckStep =>
             IF Lacks(el'.body, "errorType") \/ Lacks(el'.body, "message")
             THEN /\ el'.pc = "done"
                  /\ el'.response.status = 400
                  /\ errorLog' = errorLog
             ELSE /\ el'.pc = "create"
                  /\ errorLog' = errorLog
       /\ (el.pc = "create" /\ el'.response.status = 200) =>
             /\ Len(errorLog') = Len(errorLog) + 1
             /\ SubSeq(errorLog', 1, Len(errorLog)) = errorLog
             /\ errorLog'[Len(errorLog')].errorType = el.body.errorType.str
             /\ errorLog'[Len(errorLog')].message = el.body.message.str
             /\ el'.response.body.id = errorLog'[Len(errorLog')].id
             /\ \A i \in DOMAIN errorLog : errorLog[i].id # el'.response.body.id
       /\ (el.pc # "create" \/ el'.response.status # 200) => errorLog' = errorLog]_vars

\* A report with both fields was stored in a table that had rows, and
\* answered with the id of the new row.
C23_Witness ==
    /\ el.pc = "done"
    /\ el.response.status = 200
    /\ Len(errorLog) > 1
    /\ el.response.body.id = Len(errorLog)
    /\ errorLog[Len(errorLog)].errorType = el.body.errorType.str
    /\ errorLog[Len(errorLog)].createdAt = now

\* The rows of the ErrorLog table that satisfy every filter of the read's
\* query: the error type, when one was supplied, and the platform, when
\* one was supplied.
Matching ==
    {i \in DOMAIN errorLog :
        /\ Has(eg.where, "errorType") => errorLog[i].errorType = eg.where.errorType
        /\ Has(eg.where, "platform") => errorLog[i].platform = eg.where.platform}

Stats == st.response.body.stats

\* The log rows written more than a day before the clock started.
OldLogs == {x \in BagToSet(notificationLog) : x.sentAt < 0}

\* C30: in every stats response notificationsSent24h is at most
\* totalNotificationsSent, whatever a broadcast running beside the stats
\* request writes between the two reads: the count of the last 24 hours
\* is read first, and log rows are only ever added.
C30_RecentAtMostTotal ==
    /\ st.response.status = 200 =>
          /\ Stats.notificationsSent24h <= Stats.totalNotificationsSent
          /\ Stats.totalNotificationsSent <= RowCount(notificationLog)
    /\ st.pc = "read" => st.recentNotifications <= RowCount(notificationLog)

\* A stats response counts rows of the last day, fewer than the rows of
\* all time; a broadcast wrote a row between the two reads, which the
\* total has and the count of the last day has not.
C30_Witness ==
    /\ st.response.status = 200
    /\ Stats.notificationsSent24h >= 1
    /\ OldLogs # {}
    /\ Stats.totalNotificationsSent >
          Stats.notificationsSent24h + RowCount([x \in OldLogs |-> notificationLog[x]])

=============================================================================
